---- MODULE Spec2Model ----
(***************************************************************************)
(* Model of fan_cooling_control.ino: an engine cooling fan driven through  *)
(* a PWM transistor stage (D9) and a relay (D10) from an analog            *)
(* temperature sensor (A0).                                                *)
(*                                                                         *)
(* Temperatures are C floats in the sketch.  Here a temperature is an      *)
(* integer number of 1/TempScale degrees.  TempScale = 10 * 1023 makes     *)
(* both the sensor values raw * 150 / 1023 and every multiple of 0.1       *)
(* degree exact.  The float operations of controlFan are exact on its      *)
(* proportional band (temp - 85.0 is exact for 85 <= temp < 95, and the    *)
(* product by 10 fits a 24 bit significand), so the integer arithmetic     *)
(* below computes what the float code computes.                            *)
(***************************************************************************)
EXTENDS Integers, Sequences, FiniteSets

\* ---------------------------------------------------------------- constants
TEMP_FAN_ON == 85
TEMP_FAN_MAX == 95
TEMP_HYSTERESIS == 5
PWM_MIN == 100
PWM_MAX == 255
ADC_MAX == 1023
SENSOR_GAIN == 30
SENSOR_VREF == 5

\* temperature units per degree Celsius
TempScale == 10 * ADC_MAX

Deg(d) == d * TempScale

\* ------------------------------------------------------------------- bounds
\* whole degrees covered by the temperature grid of the control harness
TempLo == 78
TempHi == 96
\* grid points per degree
GridPerDegree == 4
\* cap of the counter of consecutive control steps in the hysteresis band
MaxRun == 3
\* the loop samples every RawStride-th converter value, and the full scale
RawStride == 31
\* printStatus samples every PinStride-th converter value, 255 and full scale
PinStride == 341

\* ------------------------------------------------------------ C arithmetic
Abs(a) == IF a < 0 THEN -a ELSE a

\* C integer division: the quotient is truncated toward zero
TruncDiv(a, b) ==
  IF (a < 0) = (b < 0) THEN Abs(a) \div Abs(b) ELSE -(Abs(a) \div Abs(b))

\* FloatToLong rounding to the nearest integer instead of truncating
FloatToLong_Round(num, den) == TruncDiv(2 * num + den, 2 * den)

\* conversion of the float num/den to long: the fraction is discarded
FloatToLong(num, den) == TruncDiv(num, den)

\* Arduino map(): integer linear re-mapping, long arithmetic
map(x, in_min, in_max, out_min, out_max) ==
  TruncDiv((x - in_min) * (out_max - out_min), in_max - in_min) + out_min

\* -------------------------------------------------------------------- state
VARIABLES
  fanActive,    \* bool fanActive
  currentTemp,  \* float currentTemp, in 1/TempScale degrees
  pwmPin,       \* duty last written to FAN_PWM_PIN by analogWrite
  relayPin,     \* level last written to FAN_RELAY_PIN (TRUE = HIGH)
  serial,       \* last status line sent to Serial
  pc,           \* position of loop(): "read", "control", "print"
  called,       \* controlFan has been called at least once
  temp,         \* argument of the last controlFan call
  oldActive,    \* fanActive on entry of the last controlFan call
  oldRelay,     \* relayPin on entry of the last controlFan call
  scenario,     \* number of calls so far when they follow ScenarioTemps, else -1
  bandRun,      \* number of latest consecutive calls in the hysteresis band
  bandFrom,     \* fanActive before the first call of that run
  firstCall,    \* the last controlFan call was the first one since setup
  tick          \* what the current pass of loop() has done so far

progVars == <<fanActive, currentTemp, pwmPin, relayPin, serial, pc>>
obsVars == <<called, temp, oldActive, oldRelay, scenario, bandRun, bandFrom,
             firstCall>>
vars == <<fanActive, currentTemp, pwmPin, relayPin, serial, pc,
          called, temp, oldActive, oldRelay, scenario, bandRun, bandFrom,
          firstCall, tick>>

\* ------------------------------------------------------------------ sensor
\* readTemperature for a divider wired the other way round
readTemperature_Inverted(rawValue) ==
  ((ADC_MAX - rawValue) * SENSOR_VREF * SENSOR_GAIN * TempScale) \div ADC_MAX

\* readTemperature(): voltage = raw * 5/1023, temperature = voltage * 30
readTemperature(rawValue) ==
  (rawValue * SENSOR_VREF * SENSOR_GAIN * TempScale) \div ADC_MAX

\* --------------------------------------------------------------- controlFan
\* Branch with the switch-off test against TEMP_FAN_ON, without hysteresis
Branch_NoHysteresis(t, active) ==
  IF t >= Deg(TEMP_FAN_MAX) THEN "max"
  ELSE IF t >= Deg(TEMP_FAN_ON) THEN "proportional"
  ELSE IF t < Deg(TEMP_FAN_ON) THEN "off"
  ELSE IF active THEN "hold"
  ELSE "none"

\* Branch with the first two tests of the chain exchanged
Branch_OnFirst(t, active) ==
  IF t >= Deg(TEMP_FAN_ON) THEN "proportional"
  ELSE IF t >= Deg(TEMP_FAN_MAX) THEN "max"
  ELSE IF t < Deg(TEMP_FAN_ON - TEMP_HYSTERESIS) THEN "off"
  ELSE IF active THEN "hold"
  ELSE "none"

\* the branch of the if / else-if chain taken for temp (and fanActive)
Branch(t, active) ==
  IF t >= Deg(TEMP_FAN_MAX) THEN "max"
  ELSE IF t >= Deg(TEMP_FAN_ON) THEN "proportional"
  ELSE IF t < Deg(TEMP_FAN_ON - TEMP_HYSTERESIS) THEN "off"
  ELSE IF active THEN "hold"
  ELSE "none"

\* proportionalPwm mapped onto 0..PWM_MAX instead of PWM_MIN..PWM_MAX
proportionalPwm_FromZero(t) ==
  LET tempRange == Deg(TEMP_FAN_MAX) - Deg(TEMP_FAN_ON)
      tempDelta == t - Deg(TEMP_FAN_ON)
  IN  map(FloatToLong(tempDelta * 10, TempScale),
          0, FloatToLong(tempRange * 10, TempScale), 0, PWM_MAX)

\* proportionalPwm with the output range given as PWM_MAX, PWM_MIN
proportionalPwm_Swapped(t) ==
  LET tempRange == Deg(TEMP_FAN_MAX) - Deg(TEMP_FAN_ON)
      tempDelta == t - Deg(TEMP_FAN_ON)
  IN  map(FloatToLong(tempDelta * 10, TempScale),
          0, FloatToLong(tempRange * 10, TempScale), PWM_MAX, PWM_MIN)

\* pwmValue of the proportional branch
proportionalPwm(t) ==
  LET tempRange == Deg(TEMP_FAN_MAX) - Deg(TEMP_FAN_ON)
      tempDelta == t - Deg(TEMP_FAN_ON)
  IN  map(FloatToLong(tempDelta * 10, TempScale),
          0, FloatToLong(tempRange * 10, TempScale), PWM_MIN, PWM_MAX)

\* pwmValue without the last branch: nothing is held in the hysteresis band
pwmValue_NoHold(t, active) ==
  CASE Branch(t, active) = "max" -> PWM_MAX
    [] Branch(t, active) = "proportional" -> proportionalPwm(t)
    [] OTHER -> 0

\* pwmValue at the end of the chain (initialised 0)
pwmValue(t, active) ==
  CASE Branch(t, active) = "max" -> PWM_MAX
    [] Branch(t, active) = "proportional" -> proportionalPwm(t)
    [] Branch(t, active) = "off" -> 0
    [] Branch(t, active) = "hold" -> PWM_MIN
    [] OTHER -> 0

\* fanActiveAfter without the assignment of the switch-off branch
fanActiveAfter_NoClear(t, active) ==
  CASE Branch(t, active) \in {"max", "proportional"} -> TRUE
    [] OTHER -> active

\* fanActiveAfter without the assignment of the proportional branch
fanActiveAfter_MaxOnly(t, active) ==
  CASE Branch(t, active) = "max" -> TRUE
    [] Branch(t, active) = "off" -> FALSE
    [] OTHER -> active

\* fanActive after the chain
fanActiveAfter(t, active) ==
  CASE Branch(t, active) \in {"max", "proportional"} -> TRUE
    [] Branch(t, active) = "off" -> FALSE
    [] OTHER -> active

\* relayAfter without the digitalWrite of the first branch
relayAfter_NoMaxHigh(t, active, level) ==
  CASE Branch(t, active) = "proportional" -> TRUE
    [] Branch(t, active) = "off" -> FALSE
    [] OTHER -> level

\* relayAfter without the digitalWrite of the switch-off branch
relayAfter_NoLow(t, active, level) ==
  CASE Branch(t, active) \in {"max", "proportional"} -> TRUE
    [] OTHER -> level

\* level of FAN_RELAY_PIN after the chain; the last two branches do not
\* write the pin
relayAfter(t, active, level) ==
  CASE Branch(t, active) \in {"max", "proportional"} -> TRUE
    [] Branch(t, active) = "off" -> FALSE
    [] OTHER -> level

controlFan(t) ==
  /\ fanActive' = fanActiveAfter(t, fanActive)
  /\ relayPin' = relayAfter(t, fanActive, relayPin)
  /\ pwmPin' = pwmValue(t, fanActive)

\* -------------------------------------------------------------- observation
InHysteresisBand(t) ==
  /\ t >= Deg(TEMP_FAN_ON - TEMP_HYSTERESIS)
  /\ t < Deg(TEMP_FAN_ON)

InProportionalBand(t) ==
  /\ t >= Deg(TEMP_FAN_ON)
  /\ t < Deg(TEMP_FAN_MAX)

ScenarioTemps == <<Deg(70), Deg(90), Deg(96), Deg(83), Deg(78)>>

\* number of digitalWrite(FAN_RELAY_PIN, ..) executed by controlFan(t)
relayWrites(t, active) ==
  IF Branch(t, active) \in {"max", "proportional", "off"} THEN 1 ELSE 0

\* pwmWrites with the analogWrite placed inside the branches
pwmWrites_InBranches(t, active) ==
  IF Branch(t, active) = "none" THEN 0 ELSE 1

\* number of analogWrite(FAN_PWM_PIN, ..) executed by controlFan(t)
pwmWrites(t, active) == 1

\* a pass of loop() that has done nothing yet
NoTick == [reads |-> 0, calls |-> 0, pwmWrites |-> 0, relayWrites |-> 0,
           reports |-> 0]

\* the pass after one more call of controlFan(t)
Writes(t, active, pass) ==
  [pass EXCEPT !.calls = @ + 1,
               !.pwmWrites = @ + pwmWrites(t, active),
               !.relayWrites = @ + relayWrites(t, active)]

\* a call of controlFan(t) together with the record of what it was given
Call(t) ==
  /\ controlFan(t)
  /\ called' = TRUE
  /\ firstCall' = ~called
  /\ temp' = t
  /\ oldActive' = fanActive
  /\ oldRelay' = relayPin
  /\ scenario' = IF /\ scenario >= 0
                    /\ scenario < Len(ScenarioTemps)
                    /\ t = ScenarioTemps[scenario + 1]
                 THEN scenario + 1 ELSE -1
  /\ bandRun' = IF ~InHysteresisBand(t) THEN 0
                ELSE IF bandRun < MaxRun THEN bandRun + 1 ELSE MaxRun
  /\ bandFrom' = IF ~InHysteresisBand(t) THEN FALSE
                 ELSE IF bandRun = 0 THEN fanActive ELSE bandFrom

\* --------------------------------------------------------------- printStatus
\* Serial.print(float, 1): the value rounded half up to one decimal, in tenths
PrintTenths(t) == (t * 10 + TempScale \div 2) \div TempScale

\* the status line printed for the sample adcValue of the converter
StatusLine(adcValue) ==
  IF fanActive
  THEN [temp |-> PrintTenths(currentTemp), on |-> TRUE,
        pwmPercent |-> map(adcValue, 0, 255, 0, 100)]
  ELSE [temp |-> PrintTenths(currentTemp), on |-> FALSE, pwmPercent |-> -1]

\* printStatus reading the pin with digitalRead, which stops the PWM of the
\* pin when the fan is on
printStatus_DigitalRead(adcValue) ==
  /\ serial' = StatusLine(adcValue)
  /\ pwmPin' = IF fanActive THEN 0 ELSE pwmPin
  /\ UNCHANGED <<fanActive, relayPin>>

\* analogRead(FAN_PWM_PIN) samples an ADC channel, not the PWM duty: adcValue
\* is whatever the converter returns; no pin and no variable is written
printStatus(adcValue) ==
  /\ serial' = StatusLine(adcValue)
  /\ UNCHANGED <<fanActive, pwmPin, relayPin>>

\* --------------------------------------------------------------------- setup
NoLine == [temp |-> -1, on |-> FALSE, pwmPercent |-> -1]

\* setup leaving the relay pin HIGH
setup_RelayHigh ==
  /\ fanActive = FALSE
  /\ currentTemp = 0
  /\ pwmPin = 0
  /\ relayPin = TRUE
  /\ serial = NoLine

\* setup with fanActive initialised true
setup_FanActive ==
  /\ fanActive = TRUE
  /\ currentTemp = 0
  /\ pwmPin = 0
  /\ relayPin = FALSE
  /\ serial = NoLine

setup ==
  /\ fanActive = FALSE
  /\ currentTemp = 0
  /\ pwmPin = 0
  /\ relayPin = FALSE
  /\ serial = NoLine

Init ==
  /\ setup
  /\ pc = "read"
  /\ called = FALSE
  /\ temp = 0
  /\ oldActive = FALSE
  /\ oldRelay = FALSE
  /\ scenario = 0
  /\ bandRun = 0
  /\ bandFrom = FALSE
  /\ firstCall = FALSE
  /\ tick = NoTick

\* ---------------------------------------------------------------------- loop
\* results of analogRead(TEMP_SENSOR_PIN) and of analogRead(FAN_PWM_PIN)
RawValues == {r \in 0..ADC_MAX : r % RawStride = 0} \cup {ADC_MAX}

PinValues == {a \in 0..ADC_MAX : a % PinStride = 0} \cup {PWM_MAX, ADC_MAX}

LoopRead ==
  /\ pc = "read"
  /\ \E rawValue \in RawValues : currentTemp' = readTemperature(rawValue)
  /\ pc' = "control"
  /\ tick' = [NoTick EXCEPT !.reads = 1]
  /\ UNCHANGED <<fanActive, pwmPin, relayPin, serial>>
  /\ UNCHANGED obsVars

LoopControl ==
  /\ pc = "control"
  /\ Call(currentTemp)
  /\ tick' = Writes(currentTemp, fanActive, tick)
  /\ pc' = "print"
  /\ UNCHANGED <<currentTemp, serial>>

LoopPrint ==
  /\ pc = "print"
  /\ \E adcValue \in PinValues : printStatus(adcValue)
  /\ pc' = "read"
  /\ tick' = [tick EXCEPT !.reports = @ + 1]
  /\ UNCHANGED currentTemp
  /\ UNCHANGED obsVars

Next == LoopRead \/ LoopControl \/ LoopPrint

Spec == Init /\ [][Next]_vars

\* ------------------------------------------------------ control-law harness
\* temperatures fed to controlFan directly: a grid over TempLo..TempHi, the
\* last unit below each whole degree, and the temperatures of the scenario
GridOffsets ==
  {(f * TempScale) \div GridPerDegree : f \in 0..(GridPerDegree - 1)}
    \cup {TempScale - 1}

Temps ==
  {Deg(d) + off : d \in TempLo..TempHi, off \in GridOffsets}
    \cup {ScenarioTemps[i] : i \in 1..Len(ScenarioTemps)}

Update ==
  /\ \E t \in Temps : Call(t) /\ tick' = Writes(t, fanActive, NoTick)
  /\ UNCHANGED <<currentTemp, serial, pc>>

NextCtl == Update

SpecCtl == Init /\ [][NextCtl]_vars

TypeOK ==
  /\ fanActive \in BOOLEAN
  /\ relayPin \in BOOLEAN
  /\ pwmPin \in 0..PWM_MAX
  /\ pc \in {"read", "control", "print"}
  /\ scenario \in -1..Len(ScenarioTemps)
  /\ bandRun \in 0..MaxRun

\* ------------------------------------------------------------------- claims
\* C1: a call with temp >= TEMP_FAN_MAX writes PWM_MAX, leaves the relay on
\* and leaves fanActive true, whatever fanActive was before.
C1_MaxBand ==
  (called /\ temp >= Deg(TEMP_FAN_MAX)) =>
    (pwmPin = PWM_MAX /\ relayPin = TRUE /\ fanActive = TRUE)

C1_Witness ==
  called /\ temp >= Deg(TEMP_FAN_MAX) /\ ~oldActive /\ ~oldRelay

\* C2: a call with temp < TEMP_FAN_ON - TEMP_HYSTERESIS writes 0, leaves the
\* relay off and fanActive false, whatever fanActive and the relay were.
C2_OffBand ==
  (called /\ temp < Deg(TEMP_FAN_ON - TEMP_HYSTERESIS)) =>
    (pwmPin = 0 /\ relayPin = FALSE /\ fanActive = FALSE)

C2_Witness ==
  called /\ temp < Deg(TEMP_FAN_ON - TEMP_HYSTERESIS) /\ oldActive /\ oldRelay

\* C3: during any run of consecutive calls whose temperatures are all in the
\* hysteresis band, every call writes 0 when fanActive was false before the
\* first call of the run, and PWM_MIN when it was true.
C3_BandIdempotent ==
  (bandRun >= 1) => (pwmPin = IF bandFrom THEN PWM_MIN ELSE 0)

C3_Witness ==
  bandRun = MaxRun /\ bandFrom /\ MaxRun >= 2

\* C4: a call with a temperature in the hysteresis band leaves fanActive and
\* the relay level as they were: the relay stays on when fanActive was true
\* and is off when fanActive was false.
C4_BandFrame ==
  (called /\ InHysteresisBand(temp)) =>
    /\ fanActive = oldActive
    /\ relayPin = oldRelay
    /\ relayPin = oldActive

C4_Witness ==
  called /\ InHysteresisBand(temp) /\ oldActive /\ relayPin

\* C5: every duty written to the PWM pin is 0 or lies in PWM_MIN..PWM_MAX;
\* it is never negative and never above PWM_MAX.
C5_DriveRange ==
  pwmPin = 0 \/ (pwmPin >= PWM_MIN /\ pwmPin <= PWM_MAX)

C5_Witness ==
  called /\ InProportionalBand(temp) /\ pwmPin > PWM_MIN /\ pwmPin < PWM_MAX

\* C6: after setup and after every call, fanActive is true exactly when the
\* duty last written to the PWM pin is not zero.
C6_ActiveIffDrive ==
  fanActive <=> (pwmPin # 0)

C6_Witness ==
  called /\ InHysteresisBand(temp) /\ fanActive /\ pwmPin = PWM_MIN

\* the drive of the linear interpolation between PWM_MIN at TEMP_FAN_ON and
\* PWM_MAX at TEMP_FAN_MAX, truncated to a whole drive unit
LinearDrive(t) ==
  LET range == Deg(TEMP_FAN_MAX) - Deg(TEMP_FAN_ON)
  IN  TruncDiv(PWM_MIN * range + (PWM_MAX - PWM_MIN) * (t - Deg(TEMP_FAN_ON)),
               range)

\* the drive is non-decreasing over the proportional band and is PWM_MIN at
\* TEMP_FAN_ON
MonotoneFromMin ==
  /\ \A t2 \in Temps :
       (InProportionalBand(t2) /\ temp <= t2) =>
         pwmPin <= pwmValue(t2, oldActive)
  /\ (temp = Deg(TEMP_FAN_ON)) => (pwmPin = PWM_MIN)

\* C7 as stated: over the proportional band the drive is non-decreasing in
\* temp, is PWM_MIN at TEMP_FAN_ON and approaches PWM_MAX as temp approaches
\* TEMP_FAN_MAX (within one drive unit just below TEMP_FAN_MAX).
C7_Original ==
  (called /\ InProportionalBand(temp)) =>
    /\ MonotoneFromMin
    /\ (Deg(TEMP_FAN_MAX) - temp <= 1) => (pwmPin >= PWM_MAX - 1)

\* C7 amended: over the proportional band the drive is non-decreasing in
\* temp, is PWM_MIN at TEMP_FAN_ON, and rises to PWM_MAX - 2 = 253, the
\* value of the last 0.1 degree below TEMP_FAN_MAX; PWM_MAX is not reached
\* inside the band.
C7_Proportional ==
  (called /\ InProportionalBand(temp)) =>
    /\ MonotoneFromMin
    /\ pwmPin <= PWM_MAX - 2
    /\ (10 * (Deg(TEMP_FAN_MAX) - temp) <= TempScale) => (pwmPin = PWM_MAX - 2)

C7_Witness ==
  called /\ Deg(TEMP_FAN_MAX) - temp = 1 /\ pwmPin = PWM_MAX - 2

\* C8 as stated: in the proportional band the relay is on, fanActive is true
\* and the drive is the linear interpolation, up to truncation of the result
\* to a whole drive unit, also at temperatures off the 0.1 degree grid.
C8_Original ==
  (called /\ InProportionalBand(temp)) =>
    (relayPin /\ fanActive /\ pwmPin = LinearDrive(temp))

\* C8 amended: in the proportional band the relay is on, fanActive is true
\* and the drive is the interpolation of temp cut down to 0.1 degree: equal
\* to the truncated linear interpolation at multiples of 0.1 degree, and
\* elsewhere at most 2 drive units below it, never above.
C8_Interpolation ==
  (called /\ InProportionalBand(temp)) =>
    /\ relayPin
    /\ fanActive
    /\ pwmPin <= LinearDrive(temp)
    /\ LinearDrive(temp) - pwmPin <= 2
    /\ ((10 * (temp - Deg(TEMP_FAN_ON))) % TempScale = 0) =>
         (pwmPin = LinearDrive(temp))

C8_Witness ==
  called /\ InProportionalBand(temp) /\ LinearDrive(temp) - pwmPin = 2

\* C9: from the state after setup the temperatures 70, 90, 96, 83, 78 give
\* the drives 0, 177, 255, 100, 0; the fourth is the hold at PWM_MIN, taken
\* because fanActive was true.
ScenarioDrives == <<0, 177, PWM_MAX, PWM_MIN, 0>>

C9_Scenario ==
  (scenario >= 1) =>
    /\ pwmPin = ScenarioDrives[scenario]
    /\ (scenario = 4) => oldActive

C9_Witness ==
  scenario = Len(ScenarioTemps)

\* C10: the duty, the relay level and fanActive left by a call are a function
\* of temp and of fanActive on entry alone; the relay level and the duty
\* found on entry, and the earlier samples, do not change the result.
C10_Deterministic ==
  called =>
    /\ pwmPin = pwmValue(temp, oldActive)
    /\ fanActive = fanActiveAfter(temp, oldActive)
    /\ relayPin = fanActiveAfter(temp, oldActive)

C10_Witness ==
  called /\ InHysteresisBand(temp) /\ ~oldActive /\ bandRun = MaxRun

\* C11: after setup and before the first call of controlFan, fanActive is
\* false, the duty is 0 and the relay is off; so a first call with a
\* temperature in the hysteresis band writes 0 and leaves the relay off.
C11_Startup ==
  /\ ~called => (fanActive = FALSE /\ pwmPin = 0 /\ relayPin = FALSE)
  /\ (firstCall /\ InHysteresisBand(temp)) =>
       (pwmPin = 0 /\ relayPin = FALSE /\ fanActive = FALSE)

C11_Witness ==
  firstCall /\ InHysteresisBand(temp) /\ pc = "print"

\* C12: printStatus leaves fanActive, the duty and the relay level as they
\* are, whatever it reads and prints.
C12_ReportFrame ==
  [][(pc = "print") =>
       (fanActive' = fanActive /\ pwmPin' = pwmPin /\ relayPin' = relayPin)]_vars

C12_Witness ==
  pc = "read" /\ tick.reports = 1 /\ serial.on /\ pwmPin > 0

\* the order of a pass of loop(): one read before the call, the call on the
\* temperature just read, nothing reported before the call has returned
PassOrder ==
  /\ (pc = "control") =>
       (tick.reads = 1 /\ tick.calls = 0 /\ tick.pwmWrites = 0
          /\ tick.relayWrites = 0 /\ tick.reports = 0)
  /\ (pc = "print") =>
       (tick.reads = 1 /\ tick.calls = 1 /\ tick.reports = 0
          /\ temp = currentTemp)
  /\ (pc = "read" /\ called) =>
       (tick.reads = 1 /\ tick.calls = 1 /\ tick.reports = 1
          /\ temp = currentTemp
          /\ pwmPin = pwmValue(temp, oldActive)
          /\ relayPin = fanActiveAfter(temp, oldActive))

\* C13 as stated: in every pass the temperature is read once before the
\* decision, the decision uses that temperature, the duty and the relay are
\* each written exactly once with the decided values, and one report follows.
C13_Original ==
  /\ PassOrder
  /\ (pc # "control" /\ called) =>
       (tick.pwmWrites = 1 /\ tick.relayWrites = 1)

\* C13 amended: as stated, except that the relay pin is written once when the
\* temperature is outside the hysteresis band and not at all when it is inside
\* it, where the level it has is already the decided one.
C13_Pass ==
  /\ PassOrder
  /\ (pc # "control" /\ called) =>
       /\ tick.pwmWrites = 1
       /\ tick.relayWrites = IF InHysteresisBand(temp) THEN 0 ELSE 1

C13_Witness ==
  /\ pc = "read"
  /\ tick.reports = 1
  /\ InHysteresisBand(temp)
  /\ tick.relayWrites = 0
  /\ relayPin

\* C14: fanActive and the relay go from off to on only in a call with
\* temp >= TEMP_FAN_ON and from on to off only in a call with
\* temp < TEMP_FAN_ON - TEMP_HYSTERESIS; so a call at 80 degrees or more keeps
\* a running fan on and a call below 85 degrees keeps a stopped fan off.
C14_NoChatter ==
  called =>
    /\ (~oldActive /\ fanActive) => (temp >= Deg(TEMP_FAN_ON))
    /\ (~oldRelay /\ relayPin) => (temp >= Deg(TEMP_FAN_ON))
    /\ (oldActive /\ ~fanActive) =>
         (temp < Deg(TEMP_FAN_ON - TEMP_HYSTERESIS))
    /\ (oldRelay /\ ~relayPin) =>
         (temp < Deg(TEMP_FAN_ON - TEMP_HYSTERESIS))
    /\ (oldActive /\ temp >= Deg(TEMP_FAN_ON - TEMP_HYSTERESIS)) =>
         (fanActive /\ relayPin)
    /\ (~oldActive /\ temp < Deg(TEMP_FAN_ON)) => (~fanActive /\ ~relayPin)

C14_Witness ==
  called /\ oldActive /\ oldRelay /\ ~fanActive /\ ~relayPin

\* the bands as intervals of temperature
InMaxBand(t) == t >= Deg(TEMP_FAN_MAX)

InOffBand(t) == t < Deg(TEMP_FAN_ON - TEMP_HYSTERESIS)

BandsOf(t) ==
  {b \in {"max", "proportional", "off", "hysteresis"} :
     \/ b = "max" /\ InMaxBand(t)
     \/ b = "proportional" /\ InProportionalBand(t)
     \/ b = "off" /\ InOffBand(t)
     \/ b = "hysteresis" /\ InHysteresisBand(t)}

\* C15: every temperature lies in exactly one of the four bands, and the
\* if / else-if chain of controlFan takes the branch of that band, so the
\* band found does not depend on the order of the tests.
C15_Bands ==
  called =>
    /\ Cardinality(BandsOf(temp)) = 1
    /\ (Branch(temp, oldActive) = "max") <=> InMaxBand(temp)
    /\ (Branch(temp, oldActive) = "proportional") <=> InProportionalBand(temp)
    /\ (Branch(temp, oldActive) = "off") <=> InOffBand(temp)
    /\ (Branch(temp, oldActive) \in {"hold", "none"}) <=> InHysteresisBand(temp)

C15_Witness ==
  called /\ temp = Deg(TEMP_FAN_MAX) /\ pwmPin = PWM_MAX

\* C16 as stated: the status line of a pass carries the temperature sampled
\* in that pass (to one decimal), the fanActive flag and, when the fan is on,
\* the duty written in that pass scaled from 0..255 to 0..100, never above 100.
C16_Report ==
  (pc = "read" /\ called) =>
    /\ serial.temp = PrintTenths(currentTemp)
    /\ serial.on = fanActive
    /\ fanActive =>
         /\ serial.pwmPercent = map(pwmPin, 0, 255, 0, 100)
         /\ serial.pwmPercent <= 100

\* C17: after setup and after every call the relay level equals fanActive,
\* although the last two branches of controlFan do not write the relay pin.
C17_RelayIsActive ==
  relayPin = fanActive

C17_Witness ==
  called /\ relayWrites(temp, oldActive) = 0 /\ relayPin /\ bandRun >= 2

\* C18: for a fixed fanActive on entry the duty written by a call is
\* non-decreasing in temp over the whole range, across the band limits: no
\* temperature above temp gives a smaller duty, the duty never exceeds
\* PWM_MAX, and the hold value does not exceed the duty at TEMP_FAN_ON.
C18_MonotoneDrive ==
  called =>
    /\ \A t2 \in Temps : (temp <= t2) => (pwmPin <= pwmValue(t2, oldActive))
    /\ pwmPin <= PWM_MAX
    /\ InHysteresisBand(temp) => (pwmPin <= pwmValue(Deg(TEMP_FAN_ON), oldActive))

C18_Witness ==
  called /\ oldActive /\ temp = Deg(TEMP_FAN_ON) - 1 /\ pwmPin = PWM_MIN

\* readTemperature over all converter values: within 0..150 degrees,
\* non-decreasing, and meeting each of the four bands
SensorCurve ==
  /\ \A r \in 0..ADC_MAX :
       readTemperature(r) >= 0 /\ readTemperature(r) <= Deg(150)
  /\ \A r \in 0..(ADC_MAX - 1) : readTemperature(r) <= readTemperature(r + 1)
  /\ \E r \in 0..ADC_MAX : InMaxBand(readTemperature(r))
  /\ \E r \in 0..ADC_MAX : InProportionalBand(readTemperature(r))
  /\ \E r \in 0..ADC_MAX : InOffBand(readTemperature(r))
  /\ \E r \in 0..ADC_MAX : InHysteresisBand(readTemperature(r))

\* C19: for every converter value 0..ADC_MAX readTemperature is between 0 and
\* 150 degrees and does not decrease when the value grows, so controlFan is
\* never called by loop() with a temperature outside 0..150, and each of the
\* four bands is the band of the temperature of some converter value.
C19_SensorRange ==
  /\ SensorCurve
  /\ (pc # "read") => (currentTemp >= 0 /\ currentTemp <= Deg(150))
  /\ called => (temp >= 0 /\ temp <= Deg(150))

C19_Witness ==
  pc = "print" /\ temp = readTemperature(ADC_MAX) /\ temp = Deg(150)
====
